---- MODULE Spec2Model ----
(***************************************************************************)
(* Model of the external listings adapter of the MojDom users backend:     *)
(* app/services/external_listings_service.py (query builder, fetch,        *)
(* mapper), app/services/district_mapping_service.py and the ReadAdverts   *)
(* handler of app/routers/api.py.                                          *)
(*                                                                         *)
(* Conventions.  A Python Optional value is None (the empty tuple) or      *)
(* Some(x) (the one-element tuple).  A call that may raise yields          *)
(* Return(v) or Raise(e), e being the exception's class or, for            *)
(* ApiException, its message.  A Python dict is a function whose domain    *)
(* is the set of keys present.                                             *)
(***************************************************************************)
EXTENDS Integers, Sequences, FiniteSets, TLC

VARIABLES
    pc,                 \* position of the operation in progress
    filter_model,       \* the FilterModel argument (Optional)
    pagination,         \* the ReadAdvertsRequest argument
    db,                 \* how the reference-table loads of the last builder call ended
    district_mapper,    \* the DistrictMappingService of the ExternalListingsService
    params_pagination,  \* result of _build_query_params_pagination
    params_missed,      \* result of _build_query_params_missed
    listings_http,      \* how the GET of get_listings ended
    listings,           \* result of get_listings
    mapped,             \* result of get_listings_mapped
    missed_http,        \* how the GET of get_missed ended
    missed,             \* result of get_missed
    adverts,            \* the handler's advert list, sorted
    response,           \* the HTTP response of the handler
    http_gets,          \* the GETs sent to the provider by this request, in order
    map_listing,        \* the provider record given to map_listing_to_advert
    map_now,            \* the clock readings of that call
    map_advert,         \* result of map_listing_to_advert
    api_request,        \* the /api request being served: handler, ACCESS-TOKEN, body
    store,              \* the user's rows: saved filter and pagination state
    store_before,       \* store as it was when the request arrived
    effects,            \* database, upstream and email accesses of the request, in order
    district_loads,     \* reads of the district table since the process started
    served,             \* requests accepted since the process started
    lookups             \* the concurrent lookups on one DistrictMappingService

buildVars == <<filter_model, pagination, db, district_mapper, params_pagination,
               params_missed>>
fetchVars == <<listings_http, listings, mapped, adverts, missed_http, missed,
               response, http_gets>>
mapVars == <<map_listing, map_now, map_advert>>
apiVars == <<api_request, store, store_before, effects, district_loads, served>>
raceVars == <<lookups>>
vars == <<pc, buildVars, fetchVars, mapVars, apiVars, raceVars>>

-----------------------------------------------------------------------------
(* Python values *)

None == <<>>
Some(x) == <<x>>
Return(v) == [kind |-> "return", val |-> v]
Raise(e) == [kind |-> "raise", exc |-> e]
NotCalled == [kind |-> "not_called"]

\* a test for "is not None" in place of truthiness: 0 counts as given
TruthyInt_not_none(o) == o # None

\* truthiness of an Optional[int]: None and 0 are false
TruthyInt(o) == o # None /\ o[1] # 0
\* truthiness of an Optional[List]: None and [] are false
TruthyList(o) == o # None /\ Len(o[1]) > 0

\* the key k of dict d set to v
SetKey(d, k, v) == [x \in DOMAIN d \cup {k} |-> IF x = k THEN v ELSE d[x]]

IntMax == 2147483647

-----------------------------------------------------------------------------
(* Bounds of the inputs *)

MaxTypes == 2

TypeIds == {1, 2, 3, 4}
SeqsUpTo(S, n) == UNION {[1..k -> S] : k \in 0..n}

PriceRanges ==
    {None,
     Some([from_ |-> None, to |-> None]),
     Some([from_ |-> Some(1000), to |-> Some(3000)])}

\* the Rooms and Area fields, varied together
RoomsAndAreas ==
    {[Rooms |-> None, Area |-> None],
     [Rooms |-> Some(<<>>), Area |-> Some([from_ |-> None, to |-> Some(50)])],
     [Rooms |-> Some(<<2, 3>>), Area |-> Some([from_ |-> Some(10), to |-> None])]}

FilterModels ==
    {None} \cup
    {Some([CountryId |-> 1, RegionId |-> r, Districts |-> d, Types |-> t,
           Rooms |-> ra.Rooms, Agency |-> a, Area |-> ra.Area, Price |-> p]) :
        r \in {0, 5, 9},
        d \in {None, Some(<<2, 9, 1>>), Some(<<9, 3>>)},
        t \in {None} \cup {Some(s) : s \in SeqsUpTo(TypeIds, MaxTypes)},
        ra \in RoomsAndAreas,
        a \in BOOLEAN,
        p \in PriceRanges}

Prev == 1
Next_ == 2
Latest == 3

PaginationRequests ==
    [AdvertId : {None, Some(0), Some(42)},
     Direction : {Prev, Next_, Latest},
     LastViewId : {None, Some(7)}]
    \cup {[AdvertId |-> Some(42), Direction |-> Prev, LastViewId |-> Some(0)]}

\* outcome of each reference-table load a builder call may make
DbOutcomes == [districts : {"ok", "raise"}, regions : {"ok", "raise"}]

-----------------------------------------------------------------------------
(* Reference tables of the database (read-only data) *)

\* rows of dic_region_districts_load: two rows share id 2, one name is empty
DistrictTable ==
    << [id |-> 1, name |-> "Mokotow", region_id |-> 5],
       [id |-> 2, name |-> "Wola", region_id |-> 5],
       [id |-> 3, name |-> "", region_id |-> 5],
       [id |-> 2, name |-> "Ochota", region_id |-> 5] >>

\* rows of dic_regions_load; a name is its sequence of characters
RegionTable ==
    << [id |-> 7, names |-> << <<"l", "o", "d", "z">> >>],
       [id |-> 5, names |-> << <<"w", "a", "w">>, <<"w", "A", "R", "s", "a", "w">> >>],
       [id |-> 5, names |-> << <<"o", "l", "d">> >>] >>

Upper(c) ==
    CASE c = "a" -> "A" [] c = "d" -> "D" [] c = "l" -> "L" [] c = "o" -> "O"
      [] c = "r" -> "R" [] c = "s" -> "S" [] c = "w" -> "W" [] c = "z" -> "Z"
      [] OTHER -> c

Lower(c) ==
    CASE c = "A" -> "a" [] c = "D" -> "d" [] c = "L" -> "l" [] c = "O" -> "o"
      [] c = "R" -> "r" [] c = "S" -> "s" [] c = "W" -> "w" [] c = "Z" -> "z"
      [] OTHER -> c

\* str.capitalize(): first character upper case, the rest lower case
capitalize(s) == [i \in 1..Len(s) |-> IF i = 1 THEN Upper(s[i]) ELSE Lower(s[i])]

-----------------------------------------------------------------------------
(* DistrictMappingService *)

DistrictMappingService_init ==
    [district_cache |-> [i \in {} |-> ""], cache_loaded |-> FALSE]

\* the loop of _load_district_cache over the first n rows: later rows overwrite
RECURSIVE LoadRows(_, _)
LoadRows(cache, n) ==
    IF n = 0 THEN cache
    ELSE LET c == LoadRows(cache, n - 1)
         IN  SetKey(c, DistrictTable[n].id, DistrictTable[n].name)

\* a load that leaves the service unmarked when read_list raises
load_district_cache_unmarked(svc, outcome) ==
    IF outcome = "ok"
    THEN [district_cache |-> LoadRows(svc.district_cache, Len(DistrictTable)),
          cache_loaded |-> TRUE]
    ELSE svc

load_district_cache(svc, outcome) ==
    IF outcome = "ok"
    THEN [district_cache |-> LoadRows(svc.district_cache, Len(DistrictTable)),
          cache_loaded |-> TRUE]
    ELSE [svc EXCEPT !.cache_loaded = TRUE]

\* a lookup without the `if name` test of line 49: empty names are kept
RECURSIVE NamesOf_keep_empty(_, _)
NamesOf_keep_empty(cache, ids) ==
    IF ids = <<>> THEN <<>>
    ELSE (IF Head(ids) \in DOMAIN cache THEN <<cache[Head(ids)]>> ELSE <<>>)
         \o NamesOf_keep_empty(cache, Tail(ids))

RECURSIVE NamesOf(_, _)
NamesOf(cache, ids) ==
    IF ids = <<>> THEN <<>>
    ELSE LET id == Head(ids)
             name == IF id \in DOMAIN cache THEN Some(cache[id]) ELSE None
         IN  (IF name # None /\ name[1] # "" THEN <<name[1]>> ELSE <<>>)
             \o NamesOf(cache, Tail(ids))

\* [svc |-> the service afterwards, names |-> the list returned]
get_district_names(svc, district_ids, outcome) ==
    LET s == IF ~svc.cache_loaded THEN load_district_cache(svc, outcome) ELSE svc
    IN  [svc |-> s, names |-> NamesOf(s.district_cache, district_ids)]

-----------------------------------------------------------------------------
(* ExternalListingsService: the query builder *)

reverse_building_type_mapping(t) ==
    CASE t = 1 -> <<"OTHER">>
      [] t = 2 -> <<"BLOCK", "APARTMENT_BUILDING", "INFILL", "RIBBON", "LOFT">>
      [] t = 3 -> <<"TENEMENT", "HOUSE", "WOLNOSTOJACY">>

\* a comprehension that sends an unknown type id as OTHER instead of skipping it
RECURSIVE BuildingTypes_unknown_as_other(_)
BuildingTypes_unknown_as_other(types) ==
    IF types = <<>> THEN <<>>
    ELSE (IF Head(types) \in {1, 2, 3}
          THEN reverse_building_type_mapping(Head(types)) ELSE <<"OTHER">>)
         \o BuildingTypes_unknown_as_other(Tail(types))

\* the comprehension of lines 173-178
RECURSIVE BuildingTypes(_)
BuildingTypes(types) ==
    IF types = <<>> THEN <<>>
    ELSE (IF Head(types) \in {1, 2, 3}
          THEN reverse_building_type_mapping(Head(types)) ELSE <<>>)
         \o BuildingTypes(Tail(types))

\* a builder that fills a missing bound with the stored defaults 0 and IntMax
RangeParams_defaults(params, range, lo, hi) ==
    IF range = None THEN params
    ELSE SetKey(SetKey(params, lo,
                       IF range[1].from_ # None THEN range[1].from_[1] ELSE 0),
                hi, IF range[1].to # None THEN range[1].to[1] ELSE IntMax)

\* lines 181-191: a bound is sent when the range exists and the bound is not None
RangeParams(params, range, lo, hi) ==
    IF range = None THEN params
    ELSE LET p1 == IF range[1].from_ # None
                   THEN SetKey(params, lo, range[1].from_[1]) ELSE params
         IN  IF range[1].to # None THEN SetKey(p1, hi, range[1].to[1]) ELSE p1

\* a builder that passes the agency flag through instead of inverting it
AgencyParam_passthrough(params, agency) ==
    IF agency THEN SetKey(params, "is_business", TRUE) ELSE params

\* lines 197-199: Agency=True asks upstream for non-business listings
AgencyParam(params, agency) ==
    IF agency THEN SetKey(params, "is_business", FALSE) ELSE params

\* lines 208-216: the first region whose id matches, scanning from row i
RECURSIVE CityOf(_, _)
CityOf(region_id, i) ==
    IF i > Len(RegionTable) THEN Return(None)
    ELSE IF RegionTable[i].id = region_id
         THEN IF Len(RegionTable[i].names) = 0 THEN Raise("IndexError")
              ELSE Return(Some(<<capitalize(
                       RegionTable[i].names[Len(RegionTable[i].names)])>>))
         ELSE CityOf(region_id, i + 1)

\* [res |-> Return(params) or Raise(e), svc |-> the district mapper afterwards,
\*  loads |-> which reference tables the call read]
build_query_filters(fm, svc, dbo) ==
    IF fm = None
    THEN [res |-> Raise("AttributeError"), svc |-> svc, loads |-> {}]
    ELSE
    LET f == fm[1]
        p0 == ("offer_type" :> "RENT")
        p1 == IF TruthyList(f.Types)
              THEN SetKey(p0, "building_type", BuildingTypes(f.Types[1])) ELSE p0
    IN  \* line 179 reads params["building_type"]
        IF "building_type" \notin DOMAIN p1
        THEN [res |-> Raise("KeyError"), svc |-> svc, loads |-> {}]
        ELSE
        LET p2 == RangeParams(p1, f.Price, "min_price", "max_price")
            p3 == RangeParams(p2, f.Area, "min_area", "max_area")
            p4 == IF TruthyList(f.Rooms) THEN SetKey(p3, "rooms", f.Rooms[1]) ELSE p3
            p5 == AgencyParam(p4, f.Agency)
            dn == IF TruthyList(f.Districts)
                  THEN get_district_names(svc, f.Districts[1], dbo.districts)
                  ELSE [svc |-> svc, names |-> <<>>]
            p6 == IF Len(dn.names) > 0 THEN SetKey(p5, "district", dn.names) ELSE p5
            l1 == IF TruthyList(f.Districts) /\ ~svc.cache_loaded
                  THEN {"districts"} ELSE {}
        IN  IF f.RegionId = 0
            THEN [res |-> Return(p6), svc |-> dn.svc, loads |-> l1]
            ELSE IF dbo.regions = "raise"
            THEN [res |-> Raise("DBAPIError"), svc |-> dn.svc,
                  loads |-> l1 \cup {"regions"}]
            ELSE LET city == CityOf(f.RegionId, 1)
                 IN  [res |-> IF city.kind = "raise" THEN city
                              ELSE IF city.val = None THEN Return(p6)
                              ELSE Return(SetKey(p6, "city", city.val[1])),
                      svc |-> dn.svc, loads |-> l1 \cup {"regions"}]

\* a count builder that attaches the anchor AdvertId instead of LastViewId
build_query_params_missed_anchor(fm, pag, svc, dbo) ==
    LET b == build_query_filters(fm, svc, dbo)
    IN  IF b.res.kind = "raise" THEN b
        ELSE [b EXCEPT !.res =
                 IF TruthyInt(pag.AdvertId)
                 THEN Return(SetKey(b.res.val, "id", pag.AdvertId[1]))
                 ELSE b.res]

\* lines 220-229
build_query_params_missed(fm, pag, svc, dbo) ==
    LET b == build_query_filters(fm, svc, dbo)
    IN  IF b.res.kind = "raise" THEN b
        ELSE [b EXCEPT !.res =
                 IF TruthyInt(pag.LastViewId)
                 THEN Return(SetKey(b.res.val, "id", pag.LastViewId[1]))
                 ELSE b.res]

\* a pagination builder with the two cursor directions exchanged
build_query_params_pagination_swapped(fm, pag, svc, dbo) ==
    LET b == build_query_filters(fm, svc, dbo)
    IN  IF b.res.kind = "raise" THEN b
        ELSE LET p1 == SetKey(b.res.val, "limit", 10)
                 p2 == IF TruthyInt(pag.AdvertId)
                       THEN SetKey(SetKey(p1, "direction",
                                IF pag.Direction = Prev THEN "before" ELSE "after"),
                                "id", pag.AdvertId[1])
                       ELSE IF pag.Direction = Latest
                       THEN SetKey(p1, "direction", "latest")
                       ELSE p1
             IN  [b EXCEPT !.res = Return(p2)]

\* lines 232-250
build_query_params_pagination(fm, pag, svc, dbo) ==
    LET b == build_query_filters(fm, svc, dbo)
    IN  IF b.res.kind = "raise" THEN b
        ELSE LET p1 == SetKey(b.res.val, "limit", 10)
                 p2 == IF TruthyInt(pag.AdvertId)
                       THEN SetKey(SetKey(p1, "direction",
                                IF pag.Direction = Prev THEN "after" ELSE "before"),
                                "id", pag.AdvertId[1])
                       ELSE IF pag.Direction = Latest
                       THEN SetKey(p1, "direction", "latest")
                       ELSE p1
             IN  [b EXCEPT !.res = Return(p2)]

-----------------------------------------------------------------------------
(* JSON values of the provider's response *)

JNull == [t |-> "null"]
JInt(i) == [t |-> "int", i |-> i]
JStr(x) == [t |-> "str", s |-> x]
JList(l) == [t |-> "list", l |-> l]
JBool(b) == [t |-> "bool", b |-> b]
JObj(d) == [t |-> "obj", o |-> d]
\* a string that spells a moment: fmt is the one format that matches it, ms the
\* moment it spells (milliseconds)
JDate(fmt, ms) == [t |-> "date", fmt |-> fmt, ms |-> ms]

\* bool(v)
Truthy(v) ==
    CASE v.t = "null" -> FALSE
      [] v.t = "int" -> v.i # 0
      [] v.t = "str" -> v.s # ""
      [] v.t = "list" -> Len(v.l) > 0
      [] v.t = "bool" -> v.b
      [] v.t = "obj" -> DOMAIN v.o # {}
      [] OTHER -> TRUE

\* dict.get(k, default)
Get(d, k, default) == IF k \in DOMAIN d THEN d[k] ELSE default

-----------------------------------------------------------------------------
(* ExternalListingsService: the listing mapper *)

source_mapping(src) ==
    CASE src = "olx" -> 1 [] src = "otodom" -> 2 [] src = "gratka" -> 5
      [] src = "domiporta" -> 4 [] src = "morizon" -> 3 [] src = "gumtree" -> 6
      [] OTHER -> 0

\* a mapping that marks an unknown offer type with -1 instead of the default 1
type_mapping_unknown_negative(ot) ==
    CASE ot = "RENT" -> 1 [] ot = "SALE" -> 2 [] OTHER -> -1

type_mapping(ot) ==
    CASE ot = "RENT" -> 1 [] ot = "SALE" -> 2 [] OTHER -> 1

\* a format list that lacks the date-only format
formats_without_date_only == <<"iso_frac", "iso", "space">>

formats == <<"iso_frac", "iso", "space", "date">>

\* datetime.strptime(v, formats[i]) for i, i+1, ...: the first format that matches
RECURSIVE FirstFormat(_, _)
FirstFormat(v, i) ==
    IF i > Len(formats) THEN None
    ELSE IF v.t = "date" /\ v.fmt = formats[i] THEN Some(v.ms)
    ELSE FirstFormat(v, i + 1)

\* lines 297-323; now is the reading of datetime.utcnow() of this call.  A value
\* that is no string makes strptime raise TypeError, which line 321 catches.
parse_datetime(v, now) ==
    IF ~Truthy(v) THEN now
    ELSE IF v.t \notin {"str", "date"} THEN now
    ELSE LET m == FirstFormat(v, 1) IN IF m = None THEN now ELSE m[1]

\* a mapper that keeps every photo of the record
Photos_all(d) ==
    LET p == Get(d, "photos_urls", JNull)
    IN  IF ~Truthy(p) THEN Return(<<>>)
        ELSE IF p.t = "list" THEN Return(p.l)
        ELSE IF p.t = "str" THEN Return(<<JStr(p.s)>>)
        ELSE Raise("TypeError")

\* lines 257-258: Return(list) or Raise
Photos(d) ==
    LET p == Get(d, "photos_urls", JNull)
    IN  IF ~Truthy(p) THEN Return(<<>>)
        ELSE IF p.t = "list" THEN Return(<<p.l[1]>>)
        ELSE IF p.t = "str" THEN Return(<<JStr(p.s)>>)
        ELSE Raise("TypeError")

\* pydantic's validation of a field of the AdvertModel (lines 130-149 of the schemas)
ValidInt(v) == v.t = "int"
ValidStr(v) == v.t = "str"
ValidOptInt(v) == v.t \in {"null", "int"}
ValidOptStr(v) == v.t \in {"null", "str"}
ValidBool(v) == v.t = "bool" \/ (v.t = "int" /\ v.i \in {0, 1})

\* lines 254-295: Some(advert), or None when anything raised.  now1, now2 and
\* now3 are the clock readings of the three _parse_datetime calls, in order.
map_listing_to_advert(listing, now1, now2, now3) ==
    IF listing.t # "obj" THEN None      \* listing.get raises AttributeError
    ELSE
    LET d == listing.o
        photos == Photos(d)
        created_time == parse_datetime(Get(d, "created_time", JNull), now1)
        valid_to_time == parse_datetime(Get(d, "valid_to_time", JNull), now2)
        parsed_at == parse_datetime(Get(d, "parsed_at", JNull), now3)
        source == Get(d, "source", JStr("unknown"))
        offer_type == Get(d, "offer_type", JStr("RENT"))
        id == Get(d, "id", JInt(0))
        url == Get(d, "url", JStr(""))
        regionId == Get(d, "region_id", JInt(0))
        city == Get(d, "city", JStr(""))
        region == IF Truthy(city) THEN city ELSE Get(d, "region", JStr(""))
        dist == Get(d, "district", JStr(""))
        district == IF Truthy(dist) THEN dist ELSE JStr("")
        title == Get(d, "title", JStr(""))
        rooms == Get(d, "rooms", JInt(0))
        agency == Get(d, "is_business", JBool(TRUE))
    IN  IF \/ photos.kind = "raise"
           \/ source.t \in {"list", "obj"}        \* unhashable dict key
           \/ offer_type.t \in {"list", "obj"}
           \/ ~ValidInt(id) \/ ~ValidStr(url) \/ ~ValidInt(regionId)
           \/ ~ValidStr(region) \/ ~ValidOptStr(district) \/ ~ValidStr(title)
           \/ \E i \in 1..Len(photos.val) : ~ValidStr(photos.val[i])
           \/ ~ValidOptInt(rooms)
           \/ ~ValidOptInt(Get(d, "area_m2", JNull))
           \/ ~ValidOptInt(Get(d, "price", JNull))
           \/ ~ValidStr(Get(d, "currency_code", JStr("zl")))
           \/ ~ValidBool(agency)
        THEN None
        ELSE Some([id |-> id.i,
                   sourceId |-> IF source.t = "str" THEN source_mapping(source.s) ELSE 0,
                   typeId |-> IF offer_type.t = "str" THEN type_mapping(offer_type.s) ELSE 1,
                   url |-> url.s,
                   regionId |-> regionId.i,
                   region |-> region.s,
                   district |-> Some(district.s),
                   title |-> title.s,
                   photos |-> [i \in 1..Len(photos.val) |-> photos.val[i].s],
                   rooms |-> IF rooms.t = "null" THEN None ELSE Some(rooms.i),
                   area |-> Get(d, "area_m2", JNull),
                   price |-> Get(d, "price", JNull),
                   currency |-> Get(d, "currency_code", JStr("zl")).s,
                   agency |-> Truthy(agency),
                   date |-> parsed_at,
                   createdAt |-> created_time,
                   \* line 290: a datetime is never falsy, so the else branch
                   \* (created_time) is never taken
                   validTo |-> valid_to_time])

\* the outcomes a call can meet: only a load the call makes has an outcome
DbOutcomesFor(loads) ==
    {o \in DbOutcomes :
        /\ ("districts" \notin loads => o.districts = "ok")
        /\ ("regions" \notin loads => o.regions = "ok")}

-----------------------------------------------------------------------------
(* SpecBuild: the two query builders of one ExternalListingsService, applied *)
(* in the order of ReadAdverts to any filter and pagination request          *)

FetchIdle ==
    /\ listings_http = NotCalled
    /\ listings = NotCalled
    /\ mapped = NotCalled
    /\ adverts = <<>>
    /\ missed_http = NotCalled
    /\ missed = NotCalled
    /\ response = NotCalled
    /\ http_gets = <<>>

MapIdle ==
    /\ map_listing = JNull
    /\ map_now = <<>>
    /\ map_advert = NotCalled

ApiIdle ==
    /\ api_request = NotCalled
    /\ store = NotCalled
    /\ store_before = NotCalled
    /\ effects = <<>>
    /\ district_loads = 0
    /\ served = 0

RaceIdle == lookups = <<>>

BuildIdle ==
    /\ filter_model = None
    /\ pagination = [AdvertId |-> None, Direction |-> Latest, LastViewId |-> None]
    /\ db = [districts |-> "ok", regions |-> "ok"]
    /\ district_mapper = DistrictMappingService_init
    /\ params_pagination = NotCalled
    /\ params_missed = NotCalled

InitBuild ==
    /\ FetchIdle
    /\ MapIdle
    /\ ApiIdle
    /\ RaceIdle
    /\ pc = "build_pagination"
    /\ filter_model \in FilterModels
    /\ pagination \in PaginationRequests
    /\ db = [districts |-> "ok", regions |-> "ok"]
    /\ district_mapper = DistrictMappingService_init
    /\ params_pagination = NotCalled
    /\ params_missed = NotCalled

BuildPagination ==
    /\ pc = "build_pagination"
    /\ \E dbo \in DbOutcomes :
        LET b == build_query_params_pagination(filter_model, pagination,
                                               district_mapper, dbo)
        IN  /\ dbo \in DbOutcomesFor(b.loads)
            /\ db' = dbo
            /\ params_pagination' = b.res
            /\ district_mapper' = b.svc
    /\ pc' = "build_missed"
    /\ UNCHANGED <<filter_model, pagination, params_missed, fetchVars, mapVars, apiVars, raceVars>>

BuildMissed ==
    /\ pc = "build_missed"
    /\ \E dbo \in DbOutcomes :
        LET b == build_query_params_missed(filter_model, pagination,
                                           district_mapper, dbo)
        IN  /\ dbo \in DbOutcomesFor(b.loads)
            /\ db' = dbo
            /\ params_missed' = b.res
            /\ district_mapper' = b.svc
    /\ pc' = "built"
    /\ UNCHANGED <<filter_model, pagination, params_pagination, fetchVars, mapVars, apiVars, raceVars>>

NextBuild == BuildPagination \/ BuildMissed

SpecBuild == InitBuild /\ [][NextBuild]_vars

-----------------------------------------------------------------------------
(* ExternalListingsService: the fetches *)

\* how a GET ends: httpx raises a timeout or another transport error, or the
\* provider answers with a status and a body (invalid JSON, or a JSON value)
Timeout == [kind |-> "timeout"]
TransportError == [kind |-> "error"]
Response(status, body) == [kind |-> "response", status |-> status, body |-> body]
BadJson == [json |-> FALSE]
Json(v) == [json |-> TRUE, data |-> v]

EmptyList == JList(<<>>)

\* a fetch that calls resp.raise_for_status() on a status other than 200
listings_fetch_raise_for_status(http) ==
    IF http.kind # "response" THEN Return(EmptyList)
    ELSE IF http.status # 200 THEN Raise("HTTPStatusError")
    ELSE IF ~http.body.json THEN Return(EmptyList)
    ELSE IF http.body.data.t # "obj" THEN Return(EmptyList)
    ELSE Return(Get(http.body.data.o, "items", EmptyList))

\* lines 139-153, the body of "async with": every exception of the GET and of
\* the decoding is caught at line 149
listings_fetch(http) ==
    IF http.kind # "response" THEN Return(EmptyList)
    ELSE IF http.status # 200 THEN Return(EmptyList)
    ELSE IF ~http.body.json THEN Return(EmptyList)
    ELSE IF http.body.data.t # "obj" THEN Return(EmptyList)
    ELSE Return(Get(http.body.data.o, "items", EmptyList))

\* lines 105-118
missed_fetch(http) ==
    IF http.kind # "response" THEN Return(JInt(0))
    ELSE IF http.status # 200 THEN Return(JInt(0))
    ELSE IF ~http.body.json THEN Return(JInt(0))
    ELSE IF http.body.data.t # "obj" THEN Return(JInt(0))
    ELSE Return(Get(http.body.data.o, "total", JInt(0)))

\* lines 155-160 (and 120-125): what reaches the outer handlers
service_except(exc) ==
    IF exc = "TimeoutException" THEN Raise("External listings API timeout")
    ELSE Raise("Internal error in listings service")

\* the result of get_listings / get_missed from the result r of its try body
service_result(r) == IF r.kind = "raise" THEN service_except(r.exc) ELSE r

\* clock readings of n calls of datetime.utcnow(): the clock starts at Now0 and
\* may advance by a millisecond before any call
Now0 == 5000
Readings(n) == {[i \in 1..n |-> IF i > p THEN Now0 + 1 ELSE Now0] : p \in 0..n}

\* lines 339-343: the adverts of items[i..], the record k reading reads[3k-2..3k]
RECURSIVE MapFrom(_, _, _)
MapFrom(items, reads, i) ==
    IF i > Len(items) THEN <<>>
    ELSE LET a == map_listing_to_advert(items[i], reads[3 * i - 2],
                                        reads[3 * i - 1], reads[3 * i])
         IN  (IF a # None THEN <<a[1]>> ELSE <<>>) \o MapFrom(items, reads, i + 1)

\* a mapping loop that lets the failure of one record end the whole batch
get_listings_mapped_failfast(res, reads) ==
    IF res.kind = "raise" THEN Return(<<>>)
    ELSE IF res.val.t = "list"
    THEN IF Len(MapFrom(res.val.l, reads, 1)) = Len(res.val.l)
         THEN Return(MapFrom(res.val.l, reads, 1)) ELSE Return(<<>>)
    ELSE Return(<<>>)

\* a mapping that lets the exception of get_listings reach its caller
get_listings_mapped_reraise(res, reads) ==
    IF res.kind = "raise" THEN res
    ELSE IF res.val.t = "list" THEN Return(MapFrom(res.val.l, reads, 1))
    ELSE Return(<<>>)

\* what "for listing in listings" iterates over: a list's elements; the
\* characters of a string and the keys of an object are strings, which
\* map_listing_to_advert maps to None; any other value raises TypeError
get_listings_mapped(res, reads) ==
    IF res.kind = "raise" THEN Return(<<>>)         \* line 347
    ELSE IF res.val.t = "list" THEN Return(MapFrom(res.val.l, reads, 1))
    ELSE Return(<<>>)

ItemsOf(res) ==
    IF res.kind = "return" /\ res.val.t = "list" THEN res.val.l ELSE <<>>

-----------------------------------------------------------------------------
(* The ReadAdverts handler *)

\* list.sort(key=lambda x: x.id): stable, ascending
RECURSIVE Insert(_, _)
Insert(sorted, a) ==
    IF sorted = <<>> THEN <<a>>
    ELSE IF a.id < sorted[Len(sorted)].id
         THEN Insert(SubSeq(sorted, 1, Len(sorted) - 1), a) \o <<sorted[Len(sorted)]>>
         ELSE Append(sorted, a)

\* a handler that returns the adverts in the order they were mapped
SortById_unsorted(l, n) == SubSeq(l, 1, n)

RECURSIVE SortById(_, _)
SortById(l, n) == IF n = 0 THEN <<>> ELSE Insert(SortById(l, n - 1), l[n])

\* api.py lines 191-200: Return(sorted adverts), or the 503 of the except branch
read_adverts_try(res) ==
    IF res.kind = "raise" THEN Raise(503)
    ELSE Return(SortById(res.val, Len(res.val)))

\* DbFilter.Read, db_models.py lines 231-249
DbFilter_Read(row) ==
    IF row = None THEN Raise("There was an error while reading the filter")
    ELSE Return(Some(
        [CountryId |-> row[1].country_id,
         RegionId |-> row[1].region_id,
         Districts |-> IF TruthyList(row[1].districts) THEN row[1].districts ELSE Some(<<>>),
         Types |-> IF TruthyList(row[1].types) THEN row[1].types ELSE Some(<<>>),
         Rooms |-> IF TruthyList(row[1].rooms) THEN row[1].rooms ELSE Some(<<>>),
         Agency |-> row[1].agency,
         Area |-> Some([from_ |-> Some(row[1].area_from), to |-> Some(row[1].area_to)]),
         Price |-> Some([from_ |-> Some(row[1].price_from), to |-> Some(row[1].price_to)])]))

-----------------------------------------------------------------------------
(* Spec: ReadAdverts requests, one at a time, step by step *)

MaxItems == 2

\* rows obj_users_filter_get can return for the caller
StoredRows ==
    {Some([country_id |-> 1, region_id |-> rd.region_id, districts |-> rd.districts,
           types |-> t, rooms |-> None, agency |-> FALSE,
           area_from |-> 0, area_to |-> IntMax,
           price_from |-> 1000, price_to |-> 3000]) :
        rd \in {[region_id |-> 5, districts |-> Some(<<2, 9, 1>>)],
                [region_id |-> 9, districts |-> None]},
        t \in {None, Some(<<2, 3>>)}}

\* the request bodies of ReadAdverts
ReadAdvertsRequests ==
    [AdvertId : {None, Some(42)},
     Direction : {Prev, Next_, Latest},
     LastViewId : {None, Some(7)}]
    \cup {[AdvertId |-> Some(42), Direction |-> Prev, LastViewId |-> Some(0)],
          [AdvertId |-> None, Direction |-> 4, LastViewId |-> Some(7)]}

GoodListing(id, created) ==
    JObj([id |-> JInt(id), source |-> JStr("olx"), offer_type |-> JStr("RENT"),
          url |-> JStr("u"), city |-> JStr("Warszawa"), title |-> JStr("t"),
          photos_urls |-> JList(<<JStr("a"), JStr("b")>>),
          created_time |-> created,
          valid_to_time |-> JDate("iso", 2000),
          parsed_at |-> JDate("space", 3000)])

\* provider records: two that map, one whose dates are missing or unparsable
\* and whose offer type is unknown, one whose city and region are null
\* (validation fails) and one that is no object
SampleListings ==
    {GoodListing(3, JDate("iso", 1000)),
     GoodListing(1, JDate("iso_frac", 1500)),
     JObj([id |-> JInt(2), region |-> JStr("Mazowieckie"),
           offer_type |-> JStr("SWAP"), created_time |-> JStr("yesterday")]),
     JObj([id |-> JInt(4), city |-> JNull, region |-> JNull]),
     JNull}

ListingsOutcomes ==
    {Timeout, TransportError,
     Response(503, BadJson),
     Response(404, Json(JObj([items |-> JList(<<GoodListing(3, JDate("iso", 1000))>>)]))),
     Response(200, BadJson),
     Response(200, Json(EmptyList)),
     Response(200, Json(JObj([detail |-> JStr("x")]))),
     Response(200, Json(JObj([items |-> JNull])))}
    \cup {Response(200, Json(JObj([items |-> JList(b)]))) :
             b \in SeqsUpTo(SampleListings, MaxItems)}

MissedOutcomes ==
    {Timeout, TransportError,
     Response(503, BadJson),
     Response(404, Json(JObj([total |-> JInt(4)]))),
     Response(200, BadJson),
     Response(200, Json(JObj([detail |-> JStr("x")]))),
     Response(200, Json(JObj([total |-> JNull]))),
     Response(200, Json(JObj([total |-> JInt(4)])))}

Init ==
    /\ pc = "idle"
    /\ BuildIdle
    /\ FetchIdle
    /\ MapIdle
    /\ ApiIdle
    /\ RaceIdle

\* api.py lines 185-188: the filter is read and the service constructed
ReadAdverts ==
    /\ pc = "idle"
    /\ \E row \in StoredRows \cup {None}, pag \in ReadAdvertsRequests :
        LET r == DbFilter_Read(row)
        IN  /\ pagination' = pag
            /\ IF r.kind = "raise"
               THEN /\ response' = [status |-> 500, message |-> r.exc]
                    /\ pc' = "done"
                    /\ UNCHANGED filter_model
               ELSE /\ filter_model' = r.val
                    /\ pc' = "get_listings"
                    /\ UNCHANGED response
    /\ district_mapper' = DistrictMappingService_init
    /\ UNCHANGED <<db, params_pagination, params_missed, listings_http, listings,
                   mapped, adverts, missed_http, missed, http_gets, mapVars, apiVars, raceVars>>

\* settings.external_listings_endpoint, the configured path of the listings query
endpoint == "/api/v1/listings"

\* line 106: the path of the count query, written into the code
count_path == "/api/v1/listings/new/count"

\* get_listings, line 135: the query is built; an exception there reaches line 158
GetListingsBuild ==
    /\ pc = "get_listings"
    /\ \E dbo \in DbOutcomes :
        LET b == build_query_params_pagination(filter_model, pagination,
                                               district_mapper, dbo)
        IN  /\ dbo \in DbOutcomesFor(b.loads)
            /\ db' = dbo
            /\ params_pagination' = b.res
            /\ district_mapper' = b.svc
            /\ IF b.res.kind = "raise"
               THEN listings' = service_result(b.res) /\ pc' = "map"
               ELSE UNCHANGED listings /\ pc' = "listings_get"
    /\ UNCHANGED <<filter_model, pagination, params_missed, listings_http, mapped,
                   adverts, missed_http, missed, response, http_gets, mapVars, apiVars, raceVars>>

\* a get_listings that sends the GET a second time after a timeout
GetListingsHttp_retry ==
    /\ pc = "listings_get"
    /\ \E http \in ListingsOutcomes :
        /\ listings_http' = http
        /\ listings' = service_result(listings_fetch(http))
        /\ LET get == [path |-> endpoint, params |-> params_pagination.val]
           IN  http_gets' = IF http = Timeout THEN http_gets \o <<get, get>>
                            ELSE Append(http_gets, get)
    /\ pc' = "map"
    /\ UNCHANGED <<buildVars, mapped, adverts, missed_http, missed, response, mapVars, apiVars, raceVars>>

\* get_listings, lines 139-153: the GET and what is made of its outcome
GetListingsHttp ==
    /\ pc = "listings_get"
    /\ \E http \in ListingsOutcomes :
        /\ listings_http' = http
        /\ listings' = service_result(listings_fetch(http))
    /\ http_gets' = Append(http_gets, [path |-> endpoint, params |-> params_pagination.val])
    /\ pc' = "map"
    /\ UNCHANGED <<buildVars, mapped, adverts, missed_http, missed, response, mapVars, apiVars, raceVars>>

\* a handler that asks for the missed count whatever the Direction
MapListings_always_missed ==
    /\ pc = "map"
    /\ \E reads \in Readings(3 * Len(ItemsOf(listings))) :
        LET m == get_listings_mapped(listings, reads)
            t == read_adverts_try(m)
        IN  /\ mapped' = m
            /\ IF t.kind = "raise"
               THEN /\ response' = [status |-> t.exc]
                    /\ pc' = "done"
                    /\ UNCHANGED adverts
               ELSE /\ adverts' = t.val
                    /\ pc' = "get_missed"
                    /\ UNCHANGED response
    /\ UNCHANGED <<buildVars, listings_http, listings, missed_http, missed,
                   http_gets, mapVars, apiVars, raceVars>>

\* get_listings_mapped lines 338-350, then api.py lines 191-203
MapListings ==
    /\ pc = "map"
    /\ \E reads \in Readings(3 * Len(ItemsOf(listings))) :
        LET m == get_listings_mapped(listings, reads)
            t == read_adverts_try(m)
        IN  /\ mapped' = m
            /\ IF t.kind = "raise"
               THEN /\ response' = [status |-> t.exc]
                    /\ pc' = "done"
                    /\ UNCHANGED adverts
               ELSE /\ adverts' = t.val
                    /\ pc' = IF pagination.Direction \in {Prev, Next_}
                             THEN "get_missed" ELSE "respond"
                    /\ UNCHANGED response
    /\ UNCHANGED <<buildVars, listings_http, listings, missed_http, missed,
                   http_gets, mapVars, apiVars, raceVars>>

\* get_missed, line 104: an exception of the builder reaches line 123 and
\* leaves the handler as an ApiException (status 500)
GetMissedBuild ==
    /\ pc = "get_missed"
    /\ \E dbo \in DbOutcomes :
        LET b == build_query_params_missed(filter_model, pagination,
                                           district_mapper, dbo)
        IN  /\ dbo \in DbOutcomesFor(b.loads)
            /\ db' = dbo
            /\ params_missed' = b.res
            /\ district_mapper' = b.svc
            /\ IF b.res.kind = "raise"
               THEN /\ missed' = service_result(b.res)
                    /\ response' = [status |-> 500, message |-> service_result(b.res).exc]
                    /\ pc' = "done"
               ELSE UNCHANGED <<missed, response>> /\ pc' = "missed_get"
    /\ UNCHANGED <<filter_model, pagination, params_pagination, listings_http,
                   listings, mapped, adverts, missed_http, http_gets, mapVars, apiVars, raceVars>>

\* get_missed, lines 105-118
GetMissedHttp ==
    /\ pc = "missed_get"
    /\ \E http \in MissedOutcomes :
        /\ missed_http' = http
        /\ missed' = service_result(missed_fetch(http))
    /\ http_gets' = Append(http_gets, [path |-> count_path, params |-> params_missed.val])
    /\ pc' = "respond"
    /\ UNCHANGED <<buildVars, listings_http, listings, mapped, adverts, response,
                   mapVars, apiVars, raceVars>>

\* api.py lines 202-206: ReadAdvertsResponse(data=adverts, missed=missed); a
\* missed that is no int fails the response's validation
Respond ==
    /\ pc = "respond"
    /\ LET m == IF missed = NotCalled THEN JInt(0) ELSE missed.val
       IN  response' = IF ValidInt(m)
                       THEN [status |-> 200, data |-> adverts, missed |-> m.i]
                       ELSE [status |-> 500, message |-> "Internal server error"]
    /\ pc' = "done"
    /\ UNCHANGED <<buildVars, listings_http, listings, mapped, adverts, missed_http,
                   missed, http_gets, mapVars, apiVars, raceVars>>

\* the request is over; the next one starts from a new ExternalListingsService
NextRequest ==
    /\ pc = "done"
    /\ pc' = "idle"
    /\ filter_model' = None
    /\ pagination' = [AdvertId |-> None, Direction |-> Latest, LastViewId |-> None]
    /\ db' = [districts |-> "ok", regions |-> "ok"]
    /\ district_mapper' = DistrictMappingService_init
    /\ params_pagination' = NotCalled
    /\ params_missed' = NotCalled
    /\ listings_http' = NotCalled
    /\ listings' = NotCalled
    /\ mapped' = NotCalled
    /\ adverts' = <<>>
    /\ missed_http' = NotCalled
    /\ missed' = NotCalled
    /\ response' = NotCalled
    /\ http_gets' = <<>>
    /\ UNCHANGED <<mapVars, apiVars, raceVars>>

Next ==
    \/ ReadAdverts
    \/ GetListingsBuild
    \/ GetListingsHttp
    \/ MapListings
    \/ GetMissedBuild
    \/ GetMissedHttp
    \/ Respond
    \/ NextRequest

Spec == Init /\ [][Next]_vars

-----------------------------------------------------------------------------
(* SpecMap: map_listing_to_advert applied to one provider record *)

\* the dict of the fields of r that are present (not None)
DictOf(r) == [k \in {x \in DOMAIN r : r[x] # None} |-> r[k][1]]

CreatedTimes ==
    {None, Some(JNull), Some(JStr("")), Some(JStr("soon")),
     Some(JDate("iso_frac", 1000)), Some(JDate("iso", 1000)),
     Some(JDate("space", 1000)), Some(JDate("date", 0)),
     Some(JDate("rfc2822", 500))}

MapListings_ ==
    {DictOf([id |-> id, photos_urls |-> ph, created_time |-> ct, valid_to_time |-> vt,
             parsed_at |-> pa, city |-> cr.city, region |-> cr.region,
             source |-> so.source, offer_type |-> so.offer_type]) :
        id \in {None, Some(JNull), Some(JInt(7))},
        ph \in {None, Some(JNull), Some(JList(<<>>)), Some(JList(<<JStr("a")>>)),
                Some(JList(<<JStr("a"), JStr("b")>>))},
        ct \in CreatedTimes,
        vt \in {None, Some(JStr("")), Some(JStr("soon")), Some(JDate("iso", 2000))},
        pa \in {None, Some(JDate("space", 3000))},
        cr \in {[city |-> None, region |-> None],
                [city |-> Some(JNull), region |-> Some(JNull)],
                [city |-> Some(JStr("")), region |-> Some(JStr("Mazowieckie"))],
                [city |-> Some(JStr("Warszawa")), region |-> None]},
        so \in {[source |-> None, offer_type |-> None],
                [source |-> Some(JStr("otodom")), offer_type |-> Some(JStr("SALE"))],
                [source |-> Some(JStr("allegro")), offer_type |-> Some(JStr("SWAP"))]}}

InitMap ==
    /\ pc = "map_one"
    /\ BuildIdle
    /\ FetchIdle
    /\ ApiIdle
    /\ RaceIdle
    /\ map_listing \in {JObj(d) : d \in MapListings_}
    /\ map_now = <<>>
    /\ map_advert = NotCalled

MapOne ==
    /\ pc = "map_one"
    /\ \E reads \in Readings(3) :
        /\ map_now' = reads
        /\ map_advert' = map_listing_to_advert(map_listing, reads[1], reads[2], reads[3])
    /\ pc' = "mapped_one"
    /\ UNCHANGED <<map_listing, buildVars, fetchVars, apiVars, raceVars>>

NextMap == MapOne

SpecMap == InitMap /\ [][NextMap]_vars

-----------------------------------------------------------------------------
(* Claims about the fetches and the handler, checked under Spec *)

ListingsFetched == listings_http # NotCalled
MissedFetched == missed_http # NotCalled

\* C1: whenever the GET of get_listings times out, get_listings raises the
\* ApiException "External listings API timeout" (not the generic failure, and
\* not an empty list).
C1_TimeoutRaisesTimeout ==
    (ListingsFetched /\ listings_http = Timeout)
    => listings = Raise("External listings API timeout")

\* C2: whenever the GET of get_listings or of get_missed fails with a transport
\* exception other than a timeout, the call raises to its caller instead of
\* returning an empty list or zero.
C2_TransportErrorRaises ==
    /\ (ListingsFetched /\ listings_http = TransportError) => listings.kind = "raise"
    /\ (MissedFetched /\ missed_http = TransportError) => missed.kind = "raise"

\* C3: a ReadAdverts request whose listings fetch timed out or failed at
\* transport level is answered 503; a 200 response with an empty advert list
\* is produced only when the provider answered the listings GET.  (Stated for
\* the requests whose listings query was built and whose missed count, if
\* any, did not raise.)
C3_UpstreamFailureIs503 ==
    (/\ pc = "done"
     /\ params_pagination.kind = "return"     \* the listings query was built
     /\ missed.kind # "raise")                \* the missed count did not fail
    => /\ (ListingsFetched /\ listings_http \in {Timeout, TransportError})
          => response.status = 503
       /\ (response.status = 200 /\ response.data = <<>>)
          => (ListingsFetched /\ listings_http.kind = "response")

\* C4: when the query was built and the provider answers with a status other
\* than 200, get_listings returns the empty list and get_missed returns 0;
\* neither raises.
C4_BadStatusIsEmpty ==
    /\ (ListingsFetched /\ listings_http.kind = "response" /\ listings_http.status # 200)
       => listings = Return(EmptyList)
    /\ (MissedFetched /\ missed_http.kind = "response" /\ missed_http.status # 200)
       => missed = Return(JInt(0))

\* one request met a non-200 answer on both of its GETs
C4_Witness ==
    /\ ListingsFetched /\ listings_http.kind = "response" /\ listings_http.status = 404
    /\ MissedFetched /\ missed_http.kind = "response" /\ missed_http.status = 503

\* the records of an HTTP 200 answer whose body carries a list of items
BatchOf(http) ==
    IF /\ http # NotCalled /\ http.kind = "response" /\ http.status = 200
       /\ http.body.json /\ http.body.data.t = "obj"
       /\ "items" \in DOMAIN http.body.data.o
       /\ http.body.data.o["items"].t = "list"
    THEN Some(http.body.data.o["items"].l) ELSE None

\* C6: for a batch returned with HTTP 200, get_listings_mapped returns exactly
\* the adverts of the records whose mapping succeeds, in provider order: a
\* record whose mapping fails is dropped and the others are still returned.
C6_BatchSurvivesBadRecord ==
    (mapped # NotCalled /\ BatchOf(listings_http) # None)
    => LET l == BatchOf(listings_http)[1]
       IN  /\ mapped.kind = "return"
           /\ \E reads \in Readings(3 * Len(l)) :
               LET a(i) == map_listing_to_advert(l[i], reads[3 * i - 2],
                                                 reads[3 * i - 1], reads[3 * i])
                   ok == {i \in 1..Len(l) : a(i) # None}
                   \* the k-th record, in provider order, whose mapping succeeds
                   nth(k) == CHOOSE i \in ok : Cardinality({j \in ok : j <= i}) = k
               IN  /\ Len(mapped.val) = Cardinality(ok)
                   /\ \A k \in 1..Len(mapped.val) : mapped.val[k] = a(nth(k))[1]

\* a batch of two records: the first fails to map, the second is returned
C6_Witness ==
    /\ mapped # NotCalled
    /\ BatchOf(listings_http) # None
    /\ Len(BatchOf(listings_http)[1]) = 2
    /\ map_listing_to_advert(BatchOf(listings_http)[1][1], Now0, Now0, Now0) = None
    /\ mapped.kind = "return"
    /\ Len(mapped.val) = 1
    /\ mapped.val[1].id = 1

-----------------------------------------------------------------------------
(* Claims about the mapper, checked under SpecMap *)

IsOmitted(d, k) == k \notin DOMAIN d \/ d[k] = JStr("")

\* C5: a record that omits valid_to_time (absent or empty) and carries a
\* parsable created_time is mapped to an advert whose validTo equals its
\* createdAt, not the current time.
C5_ValidToFallsBackToCreatedAt ==
    (/\ pc = "mapped_one"
     /\ map_advert # None
     /\ IsOmitted(map_listing.o, "valid_to_time")
     /\ "created_time" \in DOMAIN map_listing.o
     /\ map_listing.o["created_time"].t = "date")
    => map_advert[1].validTo = map_advert[1].createdAt

-----------------------------------------------------------------------------
(* Claims about the query builder, checked under SpecBuild *)

Has(res, k) == res.kind = "return" /\ k \in DOMAIN res.val
HasValue(res, k, v) == Has(res, k) /\ res.val[k] = v
DbOk == db = [districts |-> "ok", regions |-> "ok"]

C7_Filter ==
    Some([CountryId |-> 1, RegionId |-> 5, Districts |-> None, Types |-> None,
          Rooms |-> None, Agency |-> FALSE, Area |-> None,
          Price |-> Some([from_ |-> Some(1000), to |-> Some(3000)])])

\* C7: for FilterModel{RegionId=5, Price={from:1000,to:3000}} without any other
\* filter and the request {Direction=Next, AdvertId=42}, the pagination builder
\* returns parameters with min_price=1000, max_price=3000, direction=before,
\* id=42, limit=10 and city = the resolved name of region 5.
C7_EndToEndQuery ==
    (/\ pc # "build_pagination"
     /\ filter_model = C7_Filter
     /\ pagination.Direction = Next_
     /\ pagination.AdvertId = Some(42)
     /\ DbOk)
    => /\ HasValue(params_pagination, "min_price", 1000)
       /\ HasValue(params_pagination, "max_price", 3000)
       /\ HasValue(params_pagination, "direction", "before")
       /\ HasValue(params_pagination, "id", 42)
       /\ HasValue(params_pagination, "limit", 10)
       /\ HasValue(params_pagination, "city", << <<"W", "a", "r", "s", "a", "w">> >>)

\* C8: for every FilterModel, also one whose Types list is empty or absent, the
\* filter builder completes and the parameters carry offer_type = RENT (the
\* reference-table loads succeeding).
C8_OfferTypeAlwaysRent ==
    (pc = "built" /\ filter_model # None /\ DbOk)
    => /\ HasValue(params_pagination, "offer_type", "RENT")
       /\ HasValue(params_missed, "offer_type", "RENT")

\* C9: with an absent (None) FilterModel the builder does not fail: the query
\* carries only the offer kind and the pagination parameters.
C9_AbsentFilterBuilds ==
    (pc # "build_pagination" /\ filter_model = None /\ pagination.Direction = Latest)
    => /\ params_pagination.kind = "return"
       /\ DOMAIN params_pagination.val \subseteq {"offer_type", "limit", "direction", "id"}

\* C10: whenever a builder returns, Agency=true gives is_business=false and
\* Agency=false gives no is_business parameter, in the listings query and in
\* the missed-count query alike.
C10_AgencyInverted ==
    \A res \in {params_pagination, params_missed} :
        res.kind = "return"
        => IF filter_model[1].Agency
           THEN HasValue(res, "is_business", FALSE)
           ELSE ~Has(res, "is_business")

\* both builders returned for a filter with Agency=true
C10_Witness ==
    /\ pc = "built"
    /\ filter_model # None /\ filter_model[1].Agency
    /\ params_pagination.kind = "return"
    /\ params_missed.kind = "return"

\* the reverse mapping as a table, and the expected building_type list built
\* from the last type id backwards
C11_Table ==
    [t \in TypeIds |->
        IF t = 1 THEN <<"OTHER">>
        ELSE IF t = 2 THEN <<"BLOCK", "APARTMENT_BUILDING", "INFILL", "RIBBON", "LOFT">>
        ELSE IF t = 3 THEN <<"TENEMENT", "HOUSE", "WOLNOSTOJACY">>
        ELSE <<>>]

RECURSIVE C11_Concat(_, _)
C11_Concat(types, n) ==
    IF n = 0 THEN <<>> ELSE C11_Concat(types, n - 1) \o C11_Table[types[n]]

\* C11: whenever a builder returns for a filter with a non-empty Types list,
\* building_type is the concatenation, in Types order and with duplicates, of
\* the reverse-mapping entries of the type ids; an id outside {1,2,3} adds
\* nothing, and the parameter is the empty list when no id matches.
C11_BuildingTypeUnion ==
    \A res \in {params_pagination, params_missed} :
        (res.kind = "return" /\ TruthyList(filter_model[1].Types))
        => LET types == filter_model[1].Types[1]
           IN  /\ HasValue(res, "building_type", C11_Concat(types, Len(types)))
               /\ (\A i \in 1..Len(types) : types[i] \notin {1, 2, 3})
                  => HasValue(res, "building_type", <<>>)

\* both builders returned for Types = [3, 4]: the unknown id 4 added nothing
C11_Witness ==
    /\ pc = "built"
    /\ filter_model # None /\ filter_model[1].Types = Some(<<3, 4>>)
    /\ HasValue(params_pagination, "building_type", <<"TENEMENT", "HOUSE", "WOLNOSTOJACY">>)
    /\ HasValue(params_missed, "building_type", <<"TENEMENT", "HOUSE", "WOLNOSTOJACY">>)

\* C12: whenever a builder returns, each of min_price, max_price, min_area and
\* max_area is present exactly when its range exists and that bound is not
\* null, and then equals the bound; the builder adds no bound of its own.
C12_BoundsOnlyWhenSet ==
    \A res \in {params_pagination, params_missed} :
        res.kind = "return"
        => LET f == filter_model[1]
               Bound(range, side) ==
                   IF side = "from" THEN range[1].from_ ELSE range[1].to
               Sent(range, side, key) ==
                   IF range # None /\ Bound(range, side) # None
                   THEN HasValue(res, key, Bound(range, side)[1])
                   ELSE ~Has(res, key)
           IN  /\ Sent(f.Price, "from", "min_price")
               /\ Sent(f.Price, "to", "max_price")
               /\ Sent(f.Area, "from", "min_area")
               /\ Sent(f.Area, "to", "max_area")

\* both builders returned for a Price range without bounds and an Area range
\* with only its lower bound: min_area is the one bound sent
C12_Witness ==
    /\ pc = "built"
    /\ filter_model # None
    /\ filter_model[1].Price = Some([from_ |-> None, to |-> None])
    /\ filter_model[1].Area = Some([from_ |-> Some(10), to |-> None])
    /\ \A res \in {params_pagination, params_missed} :
          /\ HasValue(res, "min_area", 10)
          /\ DOMAIN res.val \cap {"min_price", "max_price", "max_area"} = {}

\* the positions of ids whose id the cache resolves to a non-empty name
C13_Resolved(cache, ids) ==
    {i \in 1..Len(ids) : ids[i] \in DOMAIN cache /\ cache[ids[i]] # ""}

\* C13: whenever a builder returns for a filter with a non-empty Districts
\* list, district holds the cached names of the ids that resolve to a
\* non-empty name, in the order of the ids and skipping the others; when no id
\* resolves, district is omitted.
C13_DistrictNames ==
    \A res \in {params_pagination, params_missed} :
        (res.kind = "return" /\ TruthyList(filter_model[1].Districts))
        => LET ids == filter_model[1].Districts[1]
               cache == district_mapper.district_cache
               R == C13_Resolved(cache, ids)
           IN  IF R = {} THEN ~Has(res, "district")
               ELSE /\ Has(res, "district")
                    /\ Len(res.val["district"]) = Cardinality(R)
                    /\ \A i \in R :
                          res.val["district"][Cardinality({j \in R : j <= i})]
                              = cache[ids[i]]

\* both builders returned for Districts = [2, 9, 1] with the table loaded: id 9
\* is unknown and skipped, id 2 resolves to the name cached last
C13_Witness ==
    /\ pc = "built"
    /\ filter_model # None /\ filter_model[1].Districts = Some(<<2, 9, 1>>)
    /\ HasValue(params_pagination, "district", <<"Ochota", "Mokotow">>)
    /\ HasValue(params_missed, "district", <<"Ochota", "Mokotow">>)

\* both builders returned for Districts = [9, 3] with the table loaded: id 9 is
\* unknown, id 3 has an empty name, and district is omitted
C13_WitnessOmitted ==
    /\ pc = "built"
    /\ filter_model # None /\ filter_model[1].Districts = Some(<<9, 3>>)
    /\ district_mapper.cache_loaded
    /\ 3 \in DOMAIN district_mapper.district_cache
    /\ params_pagination.kind = "return" /\ ~Has(params_pagination, "district")
    /\ params_missed.kind = "return" /\ ~Has(params_missed, "district")

\* the rows of the region list whose id is region_id
C14_Matches(region_id) ==
    {i \in 1..Len(RegionTable) : RegionTable[i].id = region_id}

\* the result of the builder call that db holds the load outcomes of
C14_LastCall ==
    IF pc = "build_missed" THEN {params_pagination}
    ELSE IF pc = "built" THEN {params_missed} ELSE {}

\* the city parameter the region list gives for the filter's RegionId
C14_City(res) ==
    LET M == C14_Matches(filter_model[1].RegionId)
    IN  IF M = {}
        THEN res.kind = "return" /\ ~Has(res, "city")
        ELSE LET first == CHOOSE i \in M : \A j \in M : i <= j
                 names == RegionTable[first].names
             IN  /\ HasValue(res, "city", <<capitalize(names[Len(names)])>>)
                 /\ filter_model[1].RegionId = 5
                    => HasValue(res, "city", << <<"W", "a", "r", "s", "a", "w">> >>)

\* C14: for every filter with a non-zero RegionId whose region list loads, city
\* is the one-element list with the capitalized last name of the first region
\* whose id equals RegionId (for region 5: "Warsaw"); when no region has that
\* id, city is omitted and the builder still returns.
C14_CityOfFirstMatch ==
    \A res \in C14_LastCall :
        (/\ filter_model # None
         /\ filter_model[1].RegionId # 0
         /\ db.regions = "ok")
        => C14_City(res)

\* the same for the filters that carry a non-empty Types list
C14_CityWhenTypesGiven ==
    \A res \in C14_LastCall :
        (/\ filter_model # None
         /\ TruthyList(filter_model[1].Types)
         /\ filter_model[1].RegionId # 0
         /\ db.regions = "ok")
        => C14_City(res)

C30_NoAnchorNoCursor ==
    (/\ params_pagination.kind = "return"
     /\ pagination.AdvertId \in {None, Some(0)}
     /\ pagination.Direction \in {Prev, Next_})
    => /\ HasValue(params_pagination, "limit", 10)
       /\ ~Has(params_pagination, "direction")
       /\ ~Has(params_pagination, "id")

\* the listings query of a request {AdvertId=0, Direction=Prev}
C30_Witness ==
    /\ pc = "built"
    /\ pagination.AdvertId = Some(0) /\ pagination.Direction = Prev
    /\ HasValue(params_pagination, "limit", 10)
    /\ DOMAIN params_pagination.val \cap {"direction", "id"} = {}

-----------------------------------------------------------------------------
(* Claims about the mapping of one record, checked under SpecMap *)

\* what a date field of record d resolves to when the clock reads now
C17_Expected(d, key, now) ==
    IF key \notin DOMAIN d THEN now
    ELSE IF d[key].t = "date" /\ d[key].fmt \in {"iso_frac", "iso", "space", "date"}
    THEN d[key].ms
    ELSE now

\* the fields of record d other than its dates pass the AdvertModel's validation
C17_RestValid(d) ==
    /\ "id" \in DOMAIN d /\ d["id"].t = "int"
    /\ "city" \in DOMAIN d => d["city"].t = "str"

\* C17: _parse_datetime never fails: an absent, null or empty date and a
\* string no accepted format matches resolve to the clock reading of that
\* call, a string an accepted format matches resolves to its value; whatever
\* the three date fields hold, a record whose other fields are valid is mapped.
C17_DatesNeverFail ==
    pc = "mapped_one"
    => LET d == map_listing.o
       IN  /\ C17_RestValid(d) => map_advert # None
           /\ map_advert # None
              => /\ map_advert[1].createdAt = C17_Expected(d, "created_time", map_now[1])
                 /\ map_advert[1].validTo = C17_Expected(d, "valid_to_time", map_now[2])
                 /\ map_advert[1].date = C17_Expected(d, "parsed_at", map_now[3])

\* a record with an unparsable created_time, a valid_to_time in
\* ISO format and no parsed_at is mapped: the clock, the parsed value, the clock
C17_Witness ==
    /\ pc = "mapped_one"
    /\ "created_time" \in DOMAIN map_listing.o
    /\ map_listing.o["created_time"] = JStr("soon")
    /\ "valid_to_time" \in DOMAIN map_listing.o
    /\ map_listing.o["valid_to_time"] = JDate("iso", 2000)
    /\ "parsed_at" \notin DOMAIN map_listing.o
    /\ map_advert # None
    /\ map_advert[1].createdAt = map_now[1]
    /\ map_advert[1].validTo = 2000
    /\ map_advert[1].date = map_now[3]

\* a record whose created_time is a date-only string is mapped with its value
C17_WitnessDateOnly ==
    /\ pc = "mapped_one"
    /\ "created_time" \in DOMAIN map_listing.o
    /\ map_listing.o["created_time"] = JDate("date", 0)
    /\ map_advert # None
    /\ map_advert[1].createdAt = 0

\* C18: the photos of a mapped advert have at most one element: the first
\* entry of photos_urls when that is a non-empty list, and none when
\* photos_urls is absent, null or empty.
C18_AtMostOnePhoto ==
    (pc = "mapped_one" /\ map_advert # None)
    => LET d == map_listing.o
           photos == map_advert[1].photos
       IN  /\ Len(photos) <= 1
           /\ IF "photos_urls" \in DOMAIN d /\ d["photos_urls"].t = "list"
                 /\ d["photos_urls"].l # <<>>
              THEN photos = <<d["photos_urls"].l[1].s>>
              ELSE photos = <<>>

\* a record with photos_urls = ["a", "b"] is mapped with photos = ["a"]
C18_Witness ==
    /\ pc = "mapped_one"
    /\ "photos_urls" \in DOMAIN map_listing.o
    /\ map_listing.o["photos_urls"] = JList(<<JStr("a"), JStr("b")>>)
    /\ map_advert # None
    /\ map_advert[1].photos = <<"a">>

-----------------------------------------------------------------------------
(* Claims about the queries sent and the adverts returned, checked under Spec *)

\* the parameters of a query that are neither cursor nor page size
C16_FilterPart(params) ==
    [k \in DOMAIN params \ {"limit", "direction", "id"} |-> params[k]]

\* C16: the count query of a request is sent to the fixed path
\* /api/v1/listings/new/count, not to the configured listings endpoint; it
\* never carries limit or direction, it carries id = LastViewId when
\* LastViewId is present (neither null nor 0) and no id otherwise (so never
\* the anchor AdvertId), and its other parameters are exactly the filter
\* parameters of the listings query sent before it.
C16_MissedQuery ==
    missed_http # NotCalled
    => LET q == http_gets[Len(http_gets)]
       IN  /\ q.path = "/api/v1/listings/new/count"
           /\ q.path # endpoint
           /\ DOMAIN q.params \cap {"limit", "direction"} = {}
           /\ IF pagination.LastViewId \notin {None, Some(0)}
              THEN "id" \in DOMAIN q.params /\ q.params["id"] = pagination.LastViewId[1]
              ELSE "id" \notin DOMAIN q.params
           /\ Len(http_gets) = 2
              => /\ http_gets[1].path = endpoint
                 /\ C16_FilterPart(q.params) = C16_FilterPart(http_gets[1].params)

\* a request {AdvertId=42, Direction=Prev, LastViewId=7} sent both queries: the
\* listings query carries id=42, the count query id=7 and the same filter part
C16_Witness ==
    /\ missed_http # NotCalled
    /\ Len(http_gets) = 2
    /\ pagination = [AdvertId |-> Some(42), Direction |-> Prev, LastViewId |-> Some(7)]
    /\ http_gets[1].params["id"] = 42
    /\ http_gets[2].path = count_path
    /\ http_gets[2].params["id"] = 7
    /\ "city" \in DOMAIN http_gets[2].params
    /\ "district" \in DOMAIN http_gets[2].params

\* C19: every successful ReadAdverts response lists its adverts in ascending
\* order of id, whatever the order of the provider's batch: the response holds
\* the mapped adverts, each as often as mapped, with ids never decreasing.
C19_ResponseSortedById ==
    (response # NotCalled /\ response.status = 200)
    => /\ \A i, j \in 1..Len(response.data) :
             i < j => response.data[i].id <= response.data[j].id
       /\ Len(response.data) = Len(mapped.val)
       /\ \A a \in {mapped.val[i] : i \in 1..Len(mapped.val)} :
             Cardinality({i \in 1..Len(response.data) : response.data[i] = a})
               = Cardinality({i \in 1..Len(mapped.val) : mapped.val[i] = a})

\* the provider returned the adverts 3, 1 in this order and the response lists 1, 3
C19_Witness ==
    /\ response # NotCalled /\ response.status = 200
    /\ mapped.kind = "return"
    /\ Len(mapped.val) = 2
    /\ mapped.val[1].id = 3 /\ mapped.val[2].id = 1
    /\ Len(response.data) = 2
    /\ response.data[1].id = 1 /\ response.data[2].id = 3

\* the fields of an AdvertModel that the mapper sets
C20_Fields ==
    {"id", "sourceId", "typeId", "url", "regionId", "region", "district", "title",
     "photos", "rooms", "area", "price", "currency", "agency", "date", "createdAt",
     "validTo"}

\* C20: every element of the list get_listings_mapped returns is a complete
\* advert with a non-negative typeId, a region name and a district name that
\* are not null; a record that fails to map leaves no entry, null or partial.
C20_MappedAreWellFormed ==
    mapped # NotCalled
    => /\ mapped.kind = "return"
       /\ \A i \in 1..Len(mapped.val) :
             LET a == mapped.val[i]
             IN  /\ DOMAIN a = C20_Fields
                 /\ a.typeId >= 0
                 /\ a.region \in STRING
                 /\ a.district # None /\ a.district[1] \in STRING
       /\ Len(mapped.val) <= Len(ItemsOf(listings))
       /\ \A i \in 1..Len(mapped.val) : mapped.val[i].id # 4

\* a batch of the record with null city and region and of the record with the
\* unknown offer type SWAP: only the second is returned, with typeId 1
C20_Witness ==
    /\ mapped # NotCalled
    /\ BatchOf(listings_http) # None
    /\ Len(BatchOf(listings_http)[1]) = 2
    /\ BatchOf(listings_http)[1][1] = JObj([id |-> JInt(4), city |-> JNull, region |-> JNull])
    /\ mapped.kind = "return"
    /\ Len(mapped.val) = 1
    /\ mapped.val[1].id = 2
    /\ mapped.val[1].typeId = 1
    /\ mapped.val[1].region = "Mazowieckie"
    /\ mapped.val[1].district = Some("")

\* the positions in http_gets of the GETs sent to path
C21_Gets(path) == {i \in 1..Len(http_gets) : http_gets[i].path = path}

\* C21: each get_listings call and each get_missed call sends at most one GET,
\* whatever its outcome: once the GET of a call has ended (with 200, another
\* status, a timeout or a transport error) exactly one GET went to its path,
\* and none went there before.
C21_OneGetPerCall ==
    /\ Cardinality(C21_Gets(endpoint)) = IF listings_http = NotCalled THEN 0 ELSE 1
    /\ Cardinality(C21_Gets(count_path)) = IF missed_http = NotCalled THEN 0 ELSE 1
    /\ Len(http_gets) <= 2

\* both GETs of a request failed, the first by timeout, the second by a
\* transport error: two GETs were sent, one to each path
C21_Witness ==
    /\ listings_http = Timeout
    /\ missed_http = TransportError
    /\ Len(http_gets) = 2
    /\ http_gets[1].path = endpoint
    /\ http_gets[2].path = count_path

\* the listings query was not built or its GET did not end with status 200
C25_Failed ==
    \/ params_pagination.kind = "raise"
    \/ /\ listings_http # NotCalled
       /\ (listings_http.kind = "response" => listings_http.status # 200)

\* C25: get_listings_mapped never raises: whatever the builder and the GET
\* did, it returns a list, and the list is empty when the builder raised, the
\* GET timed out or failed in transport, or the status was not 200.
C25_MappedNeverRaises ==
    mapped # NotCalled
    => /\ mapped.kind = "return"
       /\ C25_Failed => mapped.val = <<>>

\* the builder raised, get_listings raised its ApiException, and
\* get_listings_mapped returned the empty list
C25_Witness ==
    /\ params_pagination.kind = "raise"
    /\ listings.kind = "raise"
    /\ listings_http = NotCalled
    /\ mapped = Return(<<>>)

\* C27: the count request is made only after get_listings_mapped has returned
\* and only when Direction is Prev or Next; for any other Direction no count
\* request is made and a successful response has missed = 0.
C27_MissedOnlyForPrevNext ==
    /\ (params_missed # NotCalled \/ missed_http # NotCalled \/ C21_Gets(count_path) # {})
       => /\ listings # NotCalled
          /\ mapped # NotCalled
          /\ pagination.Direction \in {Prev, Next_}
          /\ \A i \in C21_Gets(endpoint), j \in C21_Gets(count_path) : i < j
    /\ (response # NotCalled /\ response.status = 200
        /\ pagination.Direction \notin {Prev, Next_})
       => /\ response.missed = 0
          /\ missed = NotCalled
          /\ C21_Gets(count_path) = {}

\* a request with Direction = Latest answered with adverts and missed = 0 after
\* the one GET of the listings
C27_Witness ==
    /\ response # NotCalled /\ response.status = 200
    /\ pagination.Direction = Latest
    /\ Len(response.data) > 0
    /\ response.missed = 0
    /\ Len(http_gets) = 1

\* a request with Direction = Next answered with the count the provider gave,
\* asked for after the listings
C27_WitnessNext ==
    /\ response # NotCalled /\ response.status = 200
    /\ pagination.Direction = Next_
    /\ response.missed = 4
    /\ Len(http_gets) = 2
    /\ http_gets[2].path = count_path

-----------------------------------------------------------------------------
(* SpecApi: one process serving the /api requests of one user, one at a     *)
(* time.  The database side of every handler is followed step by step; of  *)
(* the provider only the sending of a query is recorded.                    *)

MaxRequests == 2

\* an ACCESS-TOKEN header: its text and whether uuid.UUID() accepts the text
Header(text, is_uuid) == Some([text |-> text, is_uuid |-> is_uuid])

\* the header absent, empty, no UUID, and a UUID
AccessTokens ==
    {None, Header("", FALSE), Header("letmein", FALSE),
     Header("ba73fdec-4028-403f-a110-12fb9b722d64", TRUE)}

\* a token extraction that takes any non-empty header for the user's id
extract_tokens_unchecked(header) ==
    IF header # None /\ header[1].text # "" THEN Some(header[1].text) ELSE None

\* user_service.py lines 32-40: _user_guid after _extract_tokens
extract_tokens(header) ==
    IF header # None /\ header[1].text # "" /\ header[1].is_uuid
    THEN Some(header[1].text) ELSE None

\* user_service.py lines 50-54
throw_if_unauthorized(header) ==
    IF extract_tokens(header) = None THEN Raise(401)
    ELSE Return(extract_tokens(header)[1])

\* the handlers of routers/api.py
Unauthenticated == {"Register", "Messaggio"}

\* the handlers whose body starts with request.ThrowIfInvalid()
Validating ==
    {"SaveDeviceInfo", "SaveFirebaseToken", "SaveLatestViewAdvertId",
     "SaveIsNotificationEnabled", "SaveSettings"}

\* what a handler's body reaches first after authorization and validation
FirstAccess(h) ==
    CASE h \in {"Register", "SaveDeviceInfo", "SaveFirebaseToken", "ReadFilter",
                "ReadSettings", "SaveLatestViewAdvertId", "SaveIsNotificationEnabled",
                "SaveSettings", "ReadAdverts2", "ReadDistricts", "ReadFiles",
                "ReadPartnerAdverts", "SendPartnerLead"} -> "db"
      [] h = "SendMessage" -> "email"
      [] OTHER -> "none"    \* Messaggio, GenerateSmsCode, CheckSmsCode, ReadLatestAdverts

GenericHandlers ==
    {"Register", "Messaggio", "SaveDeviceInfo", "SaveFirebaseToken", "ReadFilter",
     "ReadSettings", "SaveLatestViewAdvertId", "SaveIsNotificationEnabled",
     "SaveSettings", "ReadAdverts2", "SendMessage", "ReadDistricts", "ReadFiles",
     "ReadPartnerAdverts", "GenerateSmsCode", "CheckSmsCode", "SendPartnerLead",
     "ReadLatestAdverts"}

Handlers == GenericHandlers \cup {"SaveFilter", "ReadAdverts"}

Access(kind, what, outcome, call) ==
    [kind |-> kind, what |-> what, outcome |-> outcome, call |-> call]

\* bodies of SaveFilter: four that pass ThrowIfInvalid, eight that do not
SaveFilterBase ==
    [CountryId |-> 1, RegionId |-> 5, Districts |-> None, Types |-> None,
     Rooms |-> None, Agency |-> FALSE, Area |-> None, Price |-> None]

SaveFilterRequests ==
    {SaveFilterBase,
     [SaveFilterBase EXCEPT !.Types = Some(<<2, 3>>), !.Districts = Some(<<2, 9, 1>>)],
     [SaveFilterBase EXCEPT !.Types = Some(<<2, 3>>),
                            !.Price = Some([from_ |-> None, to |-> None]),
                            !.Area = Some([from_ |-> Some(10), to |-> None])],
     [SaveFilterBase EXCEPT !.Types = Some(<<1>>), !.Rooms = Some(<<2>>),
                            !.Agency = TRUE,
                            !.Price = Some([from_ |-> Some(1000), to |-> Some(3000)])],
     [SaveFilterBase EXCEPT !.CountryId = 0],
     [SaveFilterBase EXCEPT !.RegionId = 0],
     [SaveFilterBase EXCEPT !.Districts = Some(<<2, -1>>)],
     [SaveFilterBase EXCEPT !.Types = Some(<<0>>)],
     [SaveFilterBase EXCEPT !.Rooms = Some(<<0>>)],
     [SaveFilterBase EXCEPT !.Area = Some([from_ |-> Some(-1), to |-> None])],
     [SaveFilterBase EXCEPT !.Price = Some([from_ |-> Some(-1), to |-> Some(3000)])],
     [SaveFilterBase EXCEPT !.Price = Some([from_ |-> None, to |-> Some(-5)])]}

\* bodies of ReadAdverts
ApiReadAdvertsRequests ==
    {[AdvertId |-> None, Direction |-> d, LastViewId |-> Some(7)] : d \in {Prev, Latest}}

BodiesOf(h) ==
    IF h = "SaveFilter" THEN {Some(b) : b \in SaveFilterRequests}
    ELSE IF h = "ReadAdverts" THEN {Some(b) : b \in ApiReadAdvertsRequests}
    ELSE {None}

\* any(x < lo for x in list), for a list that may be None or empty
AnyBelow(list, lo) ==
    TruthyList(list) /\ \E i \in 1..Len(list[1]) : list[1][i] < lo

\* SaveFilterRequest.ThrowIfInvalid, api_schemas.py lines 189-213
ThrowIfInvalid(m) ==
    IF \/ m.CountryId = 0
       \/ m.RegionId = 0
       \/ AnyBelow(m.Districts, 0)
       \/ AnyBelow(m.Types, 1)
       \/ AnyBelow(m.Rooms, 1)
       \/ (m.Area # None /\ m.Area[1].from_ # None /\ m.Area[1].from_[1] < 0)
       \/ (m.Price # None /\ m.Price[1].from_ # None /\ m.Price[1].from_[1] < 0)
       \/ (m.Price # None /\ m.Price[1].to # None /\ m.Price[1].to[1] < 0)
    THEN Raise(400) ELSE Return(TRUE)

\* the bound of a range sent to obj_users_filter_save2, db_models.py lines 212-215
SavedBound(range, bound, default) ==
    IF range # None /\ bound # None THEN bound[1] ELSE default

\* DbFilter.Save, db_models.py lines 202-229: the row obj_users_filter_save2 is given
DbFilter_Save(m) ==
    [country_id |-> m.CountryId,
     region_id |-> m.RegionId,
     districts |-> IF TruthyList(m.Districts) THEN m.Districts ELSE Some(<<>>),
     types |-> IF TruthyList(m.Types) THEN m.Types ELSE Some(<<>>),
     rooms |-> IF TruthyList(m.Rooms) THEN m.Rooms ELSE Some(<<>>),
     agency |-> m.Agency,
     area_from |-> SavedBound(m.Area, IF m.Area = None THEN None ELSE m.Area[1].from_, 0),
     area_to |-> SavedBound(m.Area, IF m.Area = None THEN None ELSE m.Area[1].to, IntMax),
     price_from |-> SavedBound(m.Price, IF m.Price = None THEN None ELSE m.Price[1].from_, 0),
     price_to |-> SavedBound(m.Price, IF m.Price = None THEN None ELSE m.Price[1].to, IntMax)]

\* the rows of the user when the process starts: no filter or one saved with
\* all four bounds, and a pagination state that is reset or not
InitialStores ==
    [filter : {None,
               Some(DbFilter_Save([SaveFilterBase EXCEPT
                   !.Types = Some(<<3>>),
                   !.Districts = Some(<<9, 3>>),
                   !.Area = Some([from_ |-> Some(20), to |-> Some(80)]),
                   !.Price = Some([from_ |-> Some(500), to |-> Some(900)])]))},
     paging : {[last_offset |-> 0, last_seen_id |-> 0],
               [last_offset |-> 20, last_seen_id |-> 7]}]

InitApi ==
    /\ pc = "idle"
    /\ BuildIdle
    /\ FetchIdle
    /\ MapIdle
    /\ RaceIdle
    /\ api_request = NotCalled
    /\ store \in InitialStores
    /\ store_before = NotCalled
    /\ effects = <<>>
    /\ district_loads = 0
    /\ served = 0

\* the fetch and mapper variables that SpecApi leaves alone
apiFrame == <<listings_http, listings, mapped, adverts, missed_http, missed, http_gets,
              mapVars, raceVars>>

\* a request arrives and FastAPI calls its handler
ApiRequest ==
    /\ pc = "idle"
    /\ served < MaxRequests
    /\ \E h \in Handlers, t \in AccessTokens :
        \E b \in BodiesOf(h) :
            /\ api_request' = [handler |-> h, token |-> t, body |-> b]
            /\ pc' = IF h \in Unauthenticated THEN "body" ELSE "authorize"
    /\ store_before' = store
    /\ served' = served + 1
    /\ UNCHANGED <<buildVars, response, effects, store, district_loads, apiFrame>>

\* the first statement of the handler: user_service.throw_if_unauthorized();
\* the UnauthorizedException becomes the 401 of the error handler
Authorize ==
    /\ pc = "authorize"
    /\ IF throw_if_unauthorized(api_request.token).kind = "raise"
       THEN response' = [status |-> 401] /\ pc' = "done"
       ELSE UNCHANGED response /\ pc' = "body"
    /\ UNCHANGED <<buildVars, api_request, store, store_before, effects,
                   district_loads, served, apiFrame>>

\* the body of a handler other than SaveFilter and ReadAdverts, up to its
\* first access: rejected by ThrowIfInvalid, or the access made and the
\* request answered or failed.  ReadLatestAdverts fails at line 392 on the
\* attribute UserGuid, which UserService does not have.
GenericBody ==
    /\ pc = "body"
    /\ api_request.handler \in GenericHandlers
    /\ LET h == api_request.handler
       IN  \/ /\ h \in Validating
              /\ response' = [status |-> 400]
              /\ UNCHANGED effects
           \/ /\ FirstAccess(h) # "none"
              /\ \E out \in {"ok", "raise"} :
                  /\ effects' = Append(effects, Access(FirstAccess(h), h, out, "handler"))
                  /\ response' = [status |-> IF out = "ok" THEN 200 ELSE 500]
           \/ /\ FirstAccess(h) = "none"
              /\ response' = [status |-> IF h = "ReadLatestAdverts" THEN 500 ELSE 200]
              /\ UNCHANGED effects
    /\ pc' = "done"
    /\ UNCHANGED <<buildVars, api_request, store, store_before, district_loads,
                   served, apiFrame>>

\* api.py line 91
SaveFilterValidate ==
    /\ pc = "body"
    /\ api_request.handler = "SaveFilter"
    /\ IF ThrowIfInvalid(api_request.body[1]).kind = "raise"
       THEN response' = [status |-> 400] /\ pc' = "done"
       ELSE UNCHANGED response /\ pc' = "save_filter"
    /\ UNCHANGED <<buildVars, api_request, store, store_before, effects,
                   district_loads, served, apiFrame>>

\* api.py line 93, DbFilter.Save: the stored function upserts the row and
\* returns it and the session commits; or it returns no row, or fails
SaveFilterSave ==
    /\ pc = "save_filter"
    /\ \E out \in {"row", "no_row", "raise"} :
        /\ effects' = Append(effects, Access("db", "obj_users_filter_save2", out, "handler"))
        /\ IF out = "row"
           THEN /\ store' = [store EXCEPT !.filter = Some(DbFilter_Save(api_request.body[1]))]
                /\ UNCHANGED response
                /\ pc' = "get_user"
           ELSE /\ response' = [status |-> 500]
                /\ UNCHANGED store
                /\ pc' = "done"
    /\ UNCHANGED <<buildVars, api_request, store_before, district_loads, served, apiFrame>>

\* api.py line 94, DbUser.GetUser
SaveFilterGetUser ==
    /\ pc = "get_user"
    /\ \E out \in {"row", "no_row"} :
        /\ effects' = Append(effects, Access("db", "obj_users_get", out, "handler"))
        /\ IF out = "row"
           THEN UNCHANGED response /\ pc' = "reset_paging"
           ELSE response' = [status |-> 500] /\ pc' = "done"
    /\ UNCHANGED <<buildVars, api_request, store, store_before, district_loads,
                   served, apiFrame>>

\* a handler that answers without resetting the pagination state
SaveFilterResetPaging_skipped ==
    /\ pc = "reset_paging"
    /\ response' = [status |-> 200]
    /\ pc' = "done"
    /\ UNCHANGED <<buildVars, api_request, store, store_before, effects,
                   district_loads, served, apiFrame>>

\* api.py lines 95-100: obj_users_pagination_state_upsert(0, 0), committed
SaveFilterResetPaging ==
    /\ pc = "reset_paging"
    /\ \E out \in {"ok", "raise"} :
        /\ effects' = Append(effects, Access("db", "obj_users_pagination_state_upsert",
                                             out, "handler"))
        /\ IF out = "ok"
           THEN /\ store' = [store EXCEPT !.paging = [last_offset |-> 0, last_seen_id |-> 0]]
                /\ response' = [status |-> 200]
           ELSE /\ response' = [status |-> 500]
                /\ UNCHANGED store
    /\ pc' = "done"
    /\ UNCHANGED <<buildVars, api_request, store_before, district_loads, served, apiFrame>>

\* api.py lines 185-188: the stored filter is read, and a new
\* ExternalListingsService, with a new DistrictMappingService, is constructed
ApiReadFilter ==
    /\ pc = "body"
    /\ api_request.handler = "ReadAdverts"
    /\ LET r == DbFilter_Read(store.filter)
       IN  /\ effects' = Append(effects, Access("db", "obj_users_filter_get",
                   IF r.kind = "raise" THEN "no_row" ELSE "row", "handler"))
           /\ IF r.kind = "raise"
              THEN /\ response' = [status |-> 500]
                   /\ pc' = "done"
                   /\ UNCHANGED filter_model
              ELSE /\ filter_model' = r.val
                   /\ pc' = "api_listings"
                   /\ UNCHANGED response
    /\ pagination' = api_request.body[1]
    /\ district_mapper' = DistrictMappingService_init
    /\ UNCHANGED <<db, params_pagination, params_missed, api_request, store,
                   store_before, district_loads, served, apiFrame>>

\* the accesses of one builder call b, and the GET that follows when it returns
CallAccesses(b, dbo, call, path) ==
    (IF "districts" \in b.loads
     THEN <<Access("db", "dic_region_districts_load", dbo.districts, call)>> ELSE <<>>)
    \o (IF "regions" \in b.loads
        THEN <<Access("db", "dic_regions_load", dbo.regions, call)>> ELSE <<>>)
    \o (IF b.res.kind = "return"
        THEN <<Access("upstream", path, "sent", call)>> ELSE <<>>)

\* api.py line 192: get_listings_mapped builds the query and sends it; what
\* comes back does not fail the request (lines 335-350)
ApiGetListings ==
    /\ pc = "api_listings"
    /\ \E dbo \in DbOutcomes :
        LET b == build_query_params_pagination(filter_model, pagination,
                                               district_mapper, dbo)
        IN  /\ dbo \in DbOutcomesFor(b.loads)
            /\ db' = dbo
            /\ params_pagination' = b.res
            /\ district_mapper' = b.svc
            /\ effects' = effects \o CallAccesses(b, dbo, "get_listings", endpoint)
            /\ district_loads' = district_loads + IF "districts" \in b.loads THEN 1 ELSE 0
    /\ IF pagination.Direction \in {Prev, Next_}
       THEN UNCHANGED response /\ pc' = "api_missed"
       ELSE response' = [status |-> 200] /\ pc' = "done"
    /\ UNCHANGED <<filter_model, pagination, params_missed, api_request, store,
                   store_before, served, apiFrame>>

\* api.py line 204: get_missed builds its query on the same service and sends
\* it; an exception of the builder leaves the handler as an ApiException
ApiGetMissed ==
    /\ pc = "api_missed"
    /\ \E dbo \in DbOutcomes :
        LET b == build_query_params_missed(filter_model, pagination,
                                           district_mapper, dbo)
        IN  /\ dbo \in DbOutcomesFor(b.loads)
            /\ db' = dbo
            /\ params_missed' = b.res
            /\ district_mapper' = b.svc
            /\ effects' = effects \o CallAccesses(b, dbo, "get_missed", count_path)
            /\ district_loads' = district_loads + IF "districts" \in b.loads THEN 1 ELSE 0
            /\ response' = [status |-> IF b.res.kind = "raise" THEN 500 ELSE 200]
    /\ pc' = "done"
    /\ UNCHANGED <<filter_model, pagination, params_pagination, api_request, store,
                   store_before, served, apiFrame>>

\* the request is over: its service objects are dropped, the rows stay
ApiNextRequest ==
    /\ pc = "done"
    /\ pc' = "idle"
    /\ filter_model' = None
    /\ pagination' = [AdvertId |-> None, Direction |-> Latest, LastViewId |-> None]
    /\ db' = [districts |-> "ok", regions |-> "ok"]
    /\ district_mapper' = DistrictMappingService_init
    /\ params_pagination' = NotCalled
    /\ params_missed' = NotCalled
    /\ response' = NotCalled
    /\ api_request' = NotCalled
    /\ store_before' = NotCalled
    /\ effects' = <<>>
    /\ UNCHANGED <<store, district_loads, served, apiFrame>>

NextApi ==
    \/ ApiRequest
    \/ Authorize
    \/ GenericBody
    \/ SaveFilterValidate
    \/ SaveFilterSave
    \/ SaveFilterGetUser
    \/ SaveFilterResetPaging
    \/ ApiReadFilter
    \/ ApiGetListings
    \/ ApiGetMissed
    \/ ApiNextRequest

SpecApi == InitApi /\ [][NextApi]_vars

-----------------------------------------------------------------------------
(* Claims about SpecApi *)

C26_TokenIsUuid ==
    api_request.token # None /\ api_request.token[1].is_uuid

\* C26: a handler that calls throw_if_unauthorized makes no database access
\* and no upstream or email request unless the ACCESS-TOKEN header is there
\* and parses as a UUID; otherwise the request ends with status 401 and the
\* stored rows are those of before the request.
C26_NoAccessWithoutToken ==
    (api_request # NotCalled /\ api_request.handler \notin Unauthenticated
        /\ ~C26_TokenIsUuid)
    => /\ effects = <<>>
       /\ store = store_before
       /\ pc \in {"authorize", "done"}
       /\ (pc = "done" => response = [status |-> 401])

C26_Witness ==
    /\ pc = "done"
    /\ api_request.handler = "SaveFilter"
    /\ api_request.token = Header("letmein", FALSE)
    /\ ThrowIfInvalid(api_request.body[1]).kind = "return"
    /\ response = [status |-> 401]

\* the row the spec describes for a saved filter: the lists as given or
\* empty, a missing or null bound as 0 (lower) or 2147483647 (upper)
C28_Bound(range, side) ==
    IF range = None THEN (IF side = "from_" THEN 0 ELSE 2147483647)
    ELSE IF range[1][side] = None THEN (IF side = "from_" THEN 0 ELSE 2147483647)
    ELSE range[1][side][1]

C28_List(l) == IF l = None THEN <<>> ELSE l[1]

C28_IsFilterOf(row, m) ==
    /\ row.country_id = m.CountryId
    /\ row.region_id = m.RegionId
    /\ row.districts[1] = C28_List(m.Districts)
    /\ row.types[1] = C28_List(m.Types)
    /\ row.rooms[1] = C28_List(m.Rooms)
    /\ row.agency = m.Agency
    /\ row.area_from = C28_Bound(m.Area, "from_")
    /\ row.area_to = C28_Bound(m.Area, "to")
    /\ row.price_from = C28_Bound(m.Price, "from_")
    /\ row.price_to = C28_Bound(m.Price, "to")

\* C28: after a SaveFilter request that returns success the stored filter is
\* the request's filter, null bounds stored as 0 and 2147483647, and the
\* pagination state is offset 0 and last-seen id 0; a SaveFilter request
\* rejected by authorization (401) or by ThrowIfInvalid (400) changes neither.
C28_SaveFilterEffect ==
    (pc = "done" /\ api_request.handler = "SaveFilter")
    => /\ response.status = 200
          => /\ store.filter # None
             /\ C28_IsFilterOf(store.filter[1], api_request.body[1])
             /\ store.paging = [last_offset |-> 0, last_seen_id |-> 0]
       /\ response.status \in {400, 401}
          => store = store_before /\ effects = <<>>

C28_Witness ==
    /\ pc = "done"
    /\ api_request.handler = "SaveFilter"
    /\ response.status = 200
    /\ api_request.body[1].Price = Some([from_ |-> None, to |-> None])
    /\ store_before.paging = [last_offset |-> 20, last_seen_id |-> 7]
    /\ store_before.filter # store.filter

C28_WitnessRejected ==
    /\ pc = "done"
    /\ api_request.handler = "SaveFilter"
    /\ response.status = 400
    /\ C26_TokenIsUuid
    /\ store_before.filter # None

\* a filter sent to SaveFilter without price or area bounds
C24_NoBounds(m) ==
    /\ m.Price = None \/ (m.Price[1].from_ = None /\ m.Price[1].to = None)
    /\ m.Area = None \/ (m.Area[1].from_ = None /\ m.Area[1].to = None)

\* C24: when the stored filter is one that SaveFilter stored without price or
\* area bounds, the listings query that ReadAdverts builds from it contains
\* none of min_price, max_price, min_area, max_area.
C24_NoDefaultBoundsSent ==
    (/\ api_request # NotCalled
     /\ api_request.handler = "ReadAdverts"
     /\ params_pagination.kind = "return"
     /\ \E m \in SaveFilterRequests :
            /\ C24_NoBounds(m)
            /\ ThrowIfInvalid(m).kind = "return"
            /\ store.filter = Some(DbFilter_Save(m)))
    => DOMAIN params_pagination.val
         \cap {"min_price", "max_price", "min_area", "max_area"} = {}

\* C22: in one process the district table is loaded from the database on the
\* first use only; later ReadAdverts requests with a district filter read
\* the cache.
C22_DistrictsLoadedOnce == district_loads <= 1

\* the accesses of the request that loaded the district table
C29_Loads ==
    {i \in DOMAIN effects : effects[i].what = "dic_region_districts_load"}

C29_LoadRaised == \E i \in C29_Loads : effects[i].outcome = "raise"

\* C29: when the load of the district table raises, the service is marked
\* loaded with an empty cache, no later lookup of the instance loads again,
\* the queries built carry no district parameter, and the builder call in
\* which the load failed returns its parameters unless its region load
\* raised as well.
C29_FailedLoadIsFinal ==
    C29_LoadRaised
    => /\ Cardinality(C29_Loads) = 1
       /\ district_mapper.cache_loaded
       /\ DOMAIN district_mapper.district_cache = {}
       /\ ~Has(params_pagination, "district")
       /\ ~Has(params_missed, "district")
       /\ \/ params_pagination.kind = "return"
          \/ \E i \in DOMAIN effects :
                effects[i] = Access("db", "dic_regions_load", "raise", "get_listings")

C29_Witness ==
    /\ pc = "done"
    /\ C29_LoadRaised
    /\ TruthyList(filter_model[1].Districts)
    /\ params_pagination.kind = "return"
    /\ params_missed.kind = "return"
    /\ response = [status |-> 200]

-----------------------------------------------------------------------------
(* SpecRace: concurrent first-time lookups on one DistrictMappingService.   *)
(* The lookups are coroutines of one event loop: a step runs from one       *)
(* await that suspends (the read of the table) to the next, and the table   *)
(* loads succeed.                                                            *)

MaxLookups == 2

\* the id lists the callers ask for
LookupIds == {<<2, 9, 1>>, <<9, 3>>, <<1>>, <<>>}

InitRace ==
    /\ pc = "race"
    /\ BuildIdle
    /\ FetchIdle
    /\ MapIdle
    /\ ApiIdle
    /\ lookups \in [1..MaxLookups ->
                      {[pc |-> "start", ids |-> ids, names |-> None] : ids \in LookupIds}]

\* a lookup that marks the cache loaded before it awaits the table
LookupStart_flag_first(l) ==
    /\ lookups[l].pc = "start"
    /\ IF district_mapper.cache_loaded
       THEN /\ lookups' = [lookups EXCEPT ![l].pc = "done",
                  ![l].names = Some(NamesOf(district_mapper.district_cache, lookups[l].ids))]
            /\ UNCHANGED <<district_mapper, district_loads>>
       ELSE /\ lookups' = [lookups EXCEPT ![l].pc = "read_list"]
            /\ district_mapper' = [district_mapper EXCEPT !.cache_loaded = TRUE]
            /\ district_loads' = district_loads + 1
    /\ UNCHANGED <<pc, filter_model, pagination, db, params_pagination, params_missed,
                   fetchVars, mapVars, api_request, store, store_before, effects, served>>

\* get_district_names lines 43-44 and _load_district_cache up to the await of
\* line 57: with the cache loaded the names are read at once (lines 46-52),
\* otherwise the coroutine is suspended in the read of the table
LookupStart(l) ==
    /\ lookups[l].pc = "start"
    /\ IF district_mapper.cache_loaded
       THEN /\ lookups' = [lookups EXCEPT ![l].pc = "done",
                  ![l].names = Some(NamesOf(district_mapper.district_cache, lookups[l].ids))]
            /\ UNCHANGED district_loads
       ELSE /\ lookups' = [lookups EXCEPT ![l].pc = "read_list"]
            /\ district_loads' = district_loads + 1
    /\ UNCHANGED <<pc, buildVars, fetchVars, mapVars, api_request, store, store_before,
                   effects, served>>

\* the read of line 57 returns: lines 58-64 fill the cache and set the flag,
\* and lines 46-52 of the caller read the names, without another await
LookupLoaded(l) ==
    /\ lookups[l].pc = "read_list"
    /\ LET s == load_district_cache(district_mapper, "ok")
       IN  /\ district_mapper' = s
           /\ lookups' = [lookups EXCEPT ![l].pc = "done",
                 ![l].names = Some(NamesOf(s.district_cache, lookups[l].ids))]
    /\ UNCHANGED <<pc, filter_model, pagination, db, params_pagination, params_missed,
                   fetchVars, mapVars, apiVars>>

NextRace ==
    \/ \E l \in DOMAIN lookups : LookupStart(l)
    \/ \E l \in DOMAIN lookups : LookupLoaded(l)

SpecRace == InitRace /\ [][NextRace]_vars

-----------------------------------------------------------------------------
(* Claims about concurrent lookups, checked under SpecRace *)

\* the name the reference table gives for a district id: that of its last row
C23_TableName(id) ==
    LET R == {i \in 1..Len(DistrictTable) : DistrictTable[i].id = id}
    IN  IF R = {} THEN "" ELSE DistrictTable[CHOOSE i \in R : \A j \in R : j <= i].name

C23_TableNames(ids) ==
    LET named == SelectSeq(ids, LAMBDA id : C23_TableName(id) # "")
    IN  [i \in 1..Len(named) |-> C23_TableName(named[i])]

\* C23: under any interleaving of concurrent first-time lookups on one
\* DistrictMappingService whose table loads succeed, every lookup that
\* completes returns exactly the names the reference table gives for its ids;
\* the table may be read more than once, but no lookup reads an empty or a
\* partly filled cache.
C23_RacingLookupsAgree ==
    \A l \in DOMAIN lookups :
        lookups[l].pc = "done"
        => lookups[l].names = Some(C23_TableNames(lookups[l].ids))

\* two lookups found the cache not loaded, both read the table, and both
\* returned the names of the table
C23_Witness ==
    /\ pc = "race"
    /\ district_loads = 2
    /\ lookups[1] = [pc |-> "done", ids |-> <<2, 9, 1>>, names |-> Some(<<"Ochota", "Mokotow">>)]
    /\ lookups[2].pc = "done"
    /\ lookups[2].ids = <<1>>
    /\ lookups[2].names = Some(<<"Mokotow">>)

====
